---------------------------- MODULE Spec2Model ----------------------------
(***************************************************************************)
(* A model of python-backend/main.py of MCIdent: the configuration parser, *)
(* the flattener, the problematic-side classifier, the two comparators,    *)
(* the health scorers and the two HTTP endpoints with their AI path.       *)
(*                                                                         *)
(* Python strings are sequences of one-character strings, so that          *)
(* str.lower(), the `in` substring test, str.isdigit(), int() and the      *)
(* f-string that joins dotted keys are computed, not assumed.              *)
(* Python values are records [t |-> tag, v |-> payload].                   *)
(***************************************************************************)
EXTENDS Integers, Sequences, FiniteSets, TLC

VARIABLES pc, req, ai, results, resp, calls

vars == <<pc, req, ai, results, resp, calls>>

(***************************************************************************)
(* Python values                                                           *)
(***************************************************************************)
VStr(s) == [t |-> "str", v |-> s]
VInt(n) == [t |-> "int", v |-> n]
VBool(b) == [t |-> "bool", v |-> b]
VNone == [t |-> "none", v |-> <<>>]
VNaN == [t |-> "nan", v |-> <<>>]
VList(xs) == [t |-> "list", v |-> xs]
VDict(items) == [t |-> "dict", v |-> items]

\* isinstance(v, dict)
IsDict(x) == x.t = "dict"

\* An exception leaving a function, and a normal return.
Exc(type) == [type |-> type, status |-> 0, detail |-> "", cause |-> ""]
Raise(e) == [ok |-> FALSE, v |-> e]
Return(x) == [ok |-> TRUE, v |-> x]

(***************************************************************************)
(* Python str operations                                                   *)
(***************************************************************************)
UpperCase == <<"A","B","C","D","E","F","G","H","I","J","K","L","M",
               "N","O","P","Q","R","S","T","U","V","W","X","Y","Z">>
LowerCase == <<"a","b","c","d","e","f","g","h","i","j","k","l","m",
               "n","o","p","q","r","s","t","u","v","w","x","y","z">>
Digits == <<"0","1","2","3","4","5","6","7","8","9">>

LowerChar(c) ==
    IF \E i \in 1..26 : UpperCase[i] = c
    THEN LowerCase[CHOOSE i \in 1..26 : UpperCase[i] = c]
    ELSE c

\* str.lower()
Lower(s) == [i \in 1..Len(s) |-> LowerChar(s[i])]

\* str.upper() is used only to build the prompt; not modelled.

\* `p in s` for two strings
Contains(s, p) ==
    \E i \in 0..(Len(s) - Len(p)) : SubSeq(s, i + 1, i + Len(p)) = p

\* any(p in s for p in patterns)
ContainsAny(s, patterns) == \E p \in patterns : Contains(s, p)

\* str.isdigit()
IsDigit(s) == Len(s) > 0 /\ \A i \in 1..Len(s) : \E d \in 1..10 : Digits[d] = s[i]

DigitVal(c) == (CHOOSE d \in 1..10 : Digits[d] = c) - 1

\* int(s) for a string of digits
RECURSIVE ParseInt(_)
ParseInt(s) ==
    IF Len(s) = 0 THEN 0
    ELSE 10 * ParseInt(SubSeq(s, 1, Len(s) - 1)) + DigitVal(s[Len(s)])

\* str(n) for an int
RECURSIVE IntDigits(_)
IntDigits(n) ==
    IF n < 10 THEN <<Digits[n + 1]>>
    ELSE IntDigits(n \div 10) \o <<Digits[(n % 10) + 1]>>

IntStr(n) == IF n < 0 THEN <<"-">> \o IntDigits(0 - n) ELSE IntDigits(n)

\* repr() of a list element, and ", ".join(...)
ScalarStr(x) ==
    CASE x.t = "str" -> x.v
      [] x.t = "int" -> IntStr(x.v)
      [] x.t = "bool" -> IF x.v THEN <<"T","r","u","e">> ELSE <<"F","a","l","s","e">>
      [] x.t = "none" -> <<"N","o","n","e">>
      [] x.t = "nan" -> <<"n","a","n">>
      [] OTHER -> <<"?">>

ScalarRepr(x) == IF x.t = "str" THEN <<"'">> \o x.v \o <<"'">> ELSE ScalarStr(x)

RECURSIVE JoinReprs(_)
JoinReprs(xs) ==
    IF Len(xs) = 0 THEN <<>>
    ELSE IF Len(xs) = 1 THEN ScalarRepr(xs[1])
    ELSE ScalarRepr(xs[1]) \o <<",", " ">> \o JoinReprs(Tail(xs))

\* str(value): the text of a leaf value (lists hold scalars in this model)
PyStr(x) ==
    IF x.t = "list" THEN <<"[">> \o JoinReprs(x.v) \o <<"]">>
    ELSE ScalarStr(x)

\* a == b on Python values: NaN equals nothing, bool is an int
IsNum(x) == x.t \in {"int", "bool"}
NumVal(x) == IF x.t = "bool" THEN (IF x.v THEN 1 ELSE 0) ELSE x.v

ScalarEq(a, b) ==
    IF a.t = "nan" \/ b.t = "nan" THEN FALSE
    ELSE IF IsNum(a) /\ IsNum(b) THEN NumVal(a) = NumVal(b)
    ELSE a.t = b.t /\ a.v = b.v

PyEq(a, b) ==
    IF a.t = "list" /\ b.t = "list"
    THEN Len(a.v) = Len(b.v) /\ \A i \in 1..Len(a.v) : ScalarEq(a.v[i], b.v[i])
    ELSE IF a.t = "list" \/ b.t = "list" THEN FALSE
    ELSE ScalarEq(a, b)

(***************************************************************************)
(* dict: a sequence of <<key, value>> pairs in insertion order             *)
(***************************************************************************)
DictKeys(d) == {d[i][1] : i \in 1..Len(d)}

HasKey(d, k) == \E i \in 1..Len(d) : d[i][1] = k

\* d[k]
DictGet(d, k) == d[CHOOSE i \in 1..Len(d) : d[i][1] = k][2]

\* d.get(k, default)
DictGetDefault(d, k, default) == IF HasKey(d, k) THEN DictGet(d, k) ELSE default

\* d[k] = v: a present key keeps its position
DictSet(d, k, v) ==
    IF HasKey(d, k)
    THEN [i \in 1..Len(d) |-> IF d[i][1] = k THEN <<k, v>> ELSE d[i]]
    ELSE Append(d, <<k, v>>)

\* dict(items)
RECURSIVE DictOf(_)
DictOf(items) ==
    IF Len(items) = 0 THEN <<>>
    ELSE DictSet(DictOf(SubSeq(items, 1, Len(items) - 1)),
                 items[Len(items)][1], items[Len(items)][2])

(***************************************************************************)
(* flatten_dict                                                            *)
(***************************************************************************)
Sep == <<".">>

\* a flattener that joins the separator even under an empty prefix
FlatNewKeyAlwaysJoins(parent_key, k) == parent_key \o Sep \o k

\* new_key = f"{parent_key}{sep}{k}" if parent_key else k
FlatNewKey(parent_key, k) ==
    IF Len(parent_key) > 0 THEN parent_key \o Sep \o k ELSE k

\* the loop of flatten_dict over d.items(): the list `items`
RECURSIVE FlattenItems(_, _)
FlattenItems(d, parent_key) ==
    IF Len(d) = 0 THEN <<>>
    ELSE LET k == d[1][1]
             v == d[1][2]
             new_key == FlatNewKey(parent_key, k)
             head == IF IsDict(v)
                     THEN DictOf(FlattenItems(v.v, new_key))
                     ELSE << <<new_key, v>> >>
         IN  head \o FlattenItems(Tail(d), parent_key)

\* flatten_dict(d, parent_key): d.items() raises AttributeError unless d is a dict
flatten_dict(x, parent_key) ==
    IF IsDict(x) THEN Return(DictOf(FlattenItems(x.v, parent_key)))
    ELSE Raise(Exc("AttributeError"))

(***************************************************************************)
(* Inputs of the flattener: every tree of at most MaxEntries entries       *)
(* (nested ones counted) over two pools of keys and leaves, and the values *)
(* that are no mapping                                                     *)
(***************************************************************************)
MaxEntries == 3

\* the dicts of exactly n entries over `keys` with leaves `leaves`
RECURSIVE DictsOfSize(_, _, _)
RECURSIVE ValuesOfSize(_, _, _)
DictsOfSize(keys, leaves, n) ==
    IF n = 0 THEN { <<>> }
    ELSE UNION { UNION { { << <<k, v>> >> \o rest : k \in keys \ DictKeys(rest) }
                         : v \in ValuesOfSize(keys, leaves, m),
                           rest \in DictsOfSize(keys, leaves, n - 1 - m) }
                 : m \in 0..(n - 1) }

ValuesOfSize(keys, leaves, m) ==
    IF m = 0 THEN leaves \cup { VDict(<<>>) }
    ELSE { VDict(d) : d \in DictsOfSize(keys, leaves, m) }

TreesOver(keys, leaves) == UNION { DictsOfSize(keys, leaves, n) : n \in 0..MaxEntries }

\* plain keys with a scalar and a sequence as leaves
PlainKeys == { <<"a">>, <<"b">> }
PlainLeaves == { VInt(1), VList(<<VInt(1), VInt(2)>>) }

\* keys that are empty or hold the separator
OddKeys == { <<"a">>, <<"a", ".", "b">>, <<>> }
OddLeaves == { VInt(1) }

TreePool == TreesOver(PlainKeys, PlainLeaves) \cup TreesOver(OddKeys, OddLeaves)

NonMappings == { VInt(1), VStr(<<"x">>), VNone, VList(<<VInt(1), VInt(2)>>) }

FlattenInputs == { VDict(d) : d \in TreePool } \cup NonMappings

FlattenPrefixes == { <<>>, <<"p">> }

(***************************************************************************)
(* State before any call, shared by every specification                    *)
(***************************************************************************)
NoAI == [kind |-> "none", items |-> <<>>]
NoResp == Raise(Exc("none"))

(***************************************************************************)
(* SpecFlatten: flatten_dict applied to one input                          *)
(***************************************************************************)
InitFlatten ==
    /\ pc = "call"
    /\ req \in [op : {"flatten_dict"}, d : FlattenInputs, parent_key : FlattenPrefixes]
    /\ ai = NoAI
    /\ results = <<>>
    /\ resp = NoResp
    /\ calls = <<>>

FlattenCall ==
    /\ pc = "call"
    /\ req.op = "flatten_dict"
    /\ resp' = flatten_dict(req.d, req.parent_key)
    /\ pc' = "done"
    /\ calls' = Append(calls, "flatten_dict")
    /\ UNCHANGED <<req, ai, results>>

NextFlatten == FlattenCall

SpecFlatten == InitFlatten /\ [][NextFlatten]_vars

(***************************************************************************)
(* Re-nesting a flattened mapping by splitting its keys on the separator   *)
(***************************************************************************)
\* s.split(".")
RECURSIVE SplitDots(_)
SplitDots(s) ==
    IF \E i \in 1..Len(s) : s[i] = "."
    THEN LET i == CHOOSE j \in 1..Len(s) :
                      s[j] = "." /\ \A h \in 1..(j - 1) : s[h] # "."
         IN  <<SubSeq(s, 1, i - 1)>> \o SplitDots(SubSeq(s, i + 1, Len(s)))
    ELSE <<s>>

\* set value v at the path `parts` of the nested dict d
RECURSIVE RenestInsert(_, _, _)
RenestInsert(d, parts, v) ==
    IF Len(parts) = 1 THEN DictSet(d, parts[1], v)
    ELSE LET child == IF HasKey(d, parts[1]) /\ IsDict(DictGet(d, parts[1]))
                      THEN DictGet(d, parts[1]).v
                      ELSE <<>>
         IN  DictSet(d, parts[1], VDict(RenestInsert(child, Tail(parts), v)))

RECURSIVE Renest(_)
Renest(flat) ==
    IF Len(flat) = 0 THEN <<>>
    ELSE LET n == Len(flat)
         IN  RenestInsert(Renest(SubSeq(flat, 1, n - 1)), SplitDots(flat[n][1]), flat[n][2])

\* equality of two dicts as mappings, whatever their insertion order
RECURSIVE SameDict(_, _)
SameDict(a, b) ==
    /\ DictKeys(a) = DictKeys(b)
    /\ \A k \in DictKeys(a) :
          LET x == DictGet(a, k)
              y == DictGet(b, k)
          IN  IF IsDict(x) /\ IsDict(y) THEN SameDict(x.v, y.v)
              ELSE x.t = y.t /\ x = y

\* shape predicates on a tree of dicts
RECURSIVE NoSequences(_)
NoSequences(d) ==
    \A i \in 1..Len(d) :
        /\ d[i][2].t # "list"
        /\ IsDict(d[i][2]) => NoSequences(d[i][2].v)

RECURSIVE NoDottedKey(_)
NoDottedKey(d) ==
    \A i \in 1..Len(d) :
        /\ ~Contains(d[i][1], Sep)
        /\ IsDict(d[i][2]) => NoDottedKey(d[i][2].v)

RECURSIVE NoEmptyNested(_)
NoEmptyNested(d) ==
    \A i \in 1..Len(d) :
        IsDict(d[i][2]) => (Len(d[i][2].v) > 0 /\ NoEmptyNested(d[i][2].v))

NoEmptyTopKeyOverDict(d) ==
    \A i \in 1..Len(d) : ~(Len(d[i][1]) = 0 /\ IsDict(d[i][2]))

FlattenDone == pc = "done" /\ req.op = "flatten_dict"

\* C9: flatten is total: a value that is no mapping gives the single entry
\* (prefix, value) and nothing is raised; an empty mapping gives the empty
\* result; a sequence inside a mapping stays one leaf.
C9_FlattenTotal ==
    FlattenDone =>
        /\ resp.ok
        /\ ~IsDict(req.d) => resp.v = << <<req.parent_key, req.d>> >>
        /\ (IsDict(req.d) /\ Len(req.d.v) = 0) => Len(resp.v) = 0
        /\ IsDict(req.d) => \A i \in 1..Len(resp.v) : ~IsDict(resp.v[i][2])

\* C10 as stated: every tree of mappings and scalars is rebuilt by flattening
\* and re-nesting, empty nested mappings and dotted keys included.
C10_RoundTripAll ==
    (FlattenDone /\ IsDict(req.d) /\ Len(req.parent_key) = 0 /\ NoSequences(req.d.v)) =>
        (resp.ok /\ SameDict(Renest(resp.v), req.d.v))

RoundTripShape(d) ==
    /\ NoSequences(d)
    /\ NoDottedKey(d)
    /\ NoEmptyNested(d)
    /\ NoEmptyTopKeyOverDict(d)

\* C10 amended: a tree of mappings and scalars is rebuilt by flattening and
\* re-nesting when no key holds the separator, no nested mapping is empty and
\* no empty top-level key holds a mapping.
C10_RoundTrip ==
    (FlattenDone /\ IsDict(req.d) /\ Len(req.parent_key) = 0 /\ RoundTripShape(req.d.v)) =>
        (resp.ok /\ SameDict(Renest(resp.v), req.d.v))

\* a tree of the amended shape, nested two levels deep, has been flattened
C10_Witness ==
    /\ FlattenDone /\ IsDict(req.d) /\ Len(req.parent_key) = 0
    /\ RoundTripShape(req.d.v)
    /\ resp.ok
    /\ \E i \in 1..Len(resp.v) : Len(SplitDots(resp.v[i][1])) = 3

(***************************************************************************)
(* Health scorers                                                          *)
(***************************************************************************)
\* sum(1 for r in results if r.risk == risk)
CountRisk(rs, risk) == Cardinality({ i \in 1..Len(rs) : rs[i].risk = risk })

\* max(0, score)
Max0(n) == IF n < 0 THEN 0 ELSE n

HealthRecord(score, h, m, l) ==
    [score |-> score, highRisk |-> h, mediumRisk |-> m, lowRisk |-> l]

\* a scorer that forgets score = max(0, score)
calculate_health_score_unclamped(rs) ==
    HealthRecord(100 - 25 * CountRisk(rs, "High") - 10 * CountRisk(rs, "Medium")
                     - 5 * CountRisk(rs, "Low"),
                 CountRisk(rs, "High"), CountRisk(rs, "Medium"), CountRisk(rs, "Low"))

calculate_health_score(rs) ==
    IF Len(rs) = 0 THEN HealthRecord(100, 0, 0, 0)
    ELSE LET high_risk == CountRisk(rs, "High")
             medium_risk == CountRisk(rs, "Medium")
             low_risk == CountRisk(rs, "Low")
         IN  HealthRecord(Max0(100 - high_risk * 25 - medium_risk * 10 - low_risk * 5),
                          high_risk, medium_risk, low_risk)

calculate_file_health_score(issues) ==
    IF Len(issues) = 0 THEN HealthRecord(100, 0, 0, 0)
    ELSE LET high_risk == CountRisk(issues, "High")
             medium_risk == CountRisk(issues, "Medium")
             low_risk == CountRisk(issues, "Low")
         IN  HealthRecord(Max0(100 - high_risk * 30 - medium_risk * 15 - low_risk * 5),
                          high_risk, medium_risk, low_risk)

(***************************************************************************)
(* SpecScore: a scorer applied to a list of h High, m Medium and l Low     *)
(* records, in either order                                                *)
(***************************************************************************)
MaxCount == 10

Repeat(x, n) == [i \in 1..n |-> x]

RiskList(h, m, l, rev) ==
    IF rev
    THEN Repeat([risk |-> "Low"], l) \o Repeat([risk |-> "Medium"], m)
             \o Repeat([risk |-> "High"], h)
    ELSE Repeat([risk |-> "High"], h) \o Repeat([risk |-> "Medium"], m)
             \o Repeat([risk |-> "Low"], l)

InitScore ==
    /\ pc = "call"
    /\ \E h \in 0..MaxCount, m \in 0..MaxCount, l \in 0..MaxCount, rev \in BOOLEAN :
          req \in [op : {"calculate_health_score", "calculate_file_health_score"},
                   h : {h}, m : {m}, l : {l},
                   results : {RiskList(h, m, l, rev)}]
    /\ ai = NoAI
    /\ results = <<>>
    /\ resp = NoResp
    /\ calls = <<>>

HealthScoreCall ==
    /\ pc = "call"
    /\ req.op = "calculate_health_score"
    /\ resp' = Return(calculate_health_score(req.results))
    /\ pc' = "done"
    /\ calls' = Append(calls, "calculate_health_score")
    /\ UNCHANGED <<req, ai, results>>

FileHealthScoreCall ==
    /\ pc = "call"
    /\ req.op = "calculate_file_health_score"
    /\ resp' = Return(calculate_file_health_score(req.results))
    /\ pc' = "done"
    /\ calls' = Append(calls, "calculate_file_health_score")
    /\ UNCHANGED <<req, ai, results>>

NextScore == HealthScoreCall \/ FileHealthScoreCall

SpecScore == InitScore /\ [][NextScore]_vars

\* C5: with h High, m Medium and l Low records the two-sided score is
\* max(0, 100 - 25h - 10m - 5l), the single-file score is
\* max(0, 100 - 30h - 15m - 5l), the counts are returned unchanged and the
\* score lies in 0..100.
C5_Scores ==
    (pc = "done" /\ req.op \in {"calculate_health_score", "calculate_file_health_score"}) =>
        LET raw == IF req.op = "calculate_health_score"
                   THEN 100 - 25 * req.h - 10 * req.m - 5 * req.l
                   ELSE 100 - 30 * req.h - 15 * req.m - 5 * req.l
        IN  /\ resp.ok
            /\ resp.v.score = (IF raw > 0 THEN raw ELSE 0)
            /\ resp.v.score \in 0..100
            /\ resp.v.highRisk = req.h
            /\ resp.v.mediumRisk = req.m
            /\ resp.v.lowRisk = req.l

\* ten High records alone have been scored 0 by the two-sided scorer
C5_Witness ==
    /\ pc = "done" /\ req.op = "calculate_health_score"
    /\ req.h = 10 /\ req.m = 0 /\ req.l = 0
    /\ resp.v.score = 0

(***************************************************************************)
(* determine_problematic_environment                                       *)
(***************************************************************************)
SecurityKeyPatterns == { <<"p", "a", "s", "s", "w", "o", "r", "d">>, <<"s", "e", "c", "r", "e", "t">>, <<"k", "e", "y">>, <<"t", "o", "k", "e", "n">> }
WeakValuePatterns == { <<"t", "e", "s", "t">>, <<"d", "e", "f", "a", "u", "l", "t">>, <<"d", "e", "m", "o">>, <<"p", "a", "s", "s", "w", "o", "r", "d">>, <<"1", "2", "3">> }
TruthyTokens == { <<"t", "r", "u", "e">>, <<"1">>, <<"y", "e", "s">>, <<"o", "n">>, <<"e", "n", "a", "b", "l", "e", "d">> }
HostKeyPatterns == { <<"h", "o", "s", "t">>, <<"u", "r", "l">>, <<"e", "n", "d", "p", "o", "i", "n", "t">>, <<"s", "e", "r", "v", "e", "r">> }
DevHostPatterns == { <<"l", "o", "c", "a", "l", "h", "o", "s", "t">>, <<"1", "2", "7", ".", "0", ".", "0", ".", "1">>, <<"d", "e", "v">>, <<"t", "e", "s", "t">>, <<"s", "t", "a", "g", "i", "n", "g">> }
SslKeyPatterns == { <<"s", "s", "l">>, <<"t", "l", "s">>, <<"s", "e", "c", "u", "r", "e">>, <<"h", "t", "t", "p", "s">> }
FalsyTokens == { <<"f", "a", "l", "s", "e">>, <<"0">>, <<"n", "o">>, <<"o", "f", "f">>, <<"d", "i", "s", "a", "b", "l", "e", "d">> }
StandardPorts == { 80, 443, 3000, 8000, 5000, 8080 }
DevValuePatterns == { <<"t", "e", "s", "t">>, <<"d", "e", "v">>, <<"l", "o", "c", "a", "l">>, <<"d", "e", "b", "u", "g">>, <<"m", "o", "c", "k">>, <<"f", "a", "k", "e">> }
ProdValuePatterns == { <<"p", "r", "o", "d">>, <<"p", "r", "o", "d", "u", "c", "t", "i", "o", "n">>, <<"l", "i", "v", "e">> }

IsNone(x) == x.t = "none"

\* the pair (problematic_value, environment) the function returns
Problematic(value, env) == [value |-> value, env |-> env]

\* int(s) if s.isdigit() else None
PortOf(s) == IF IsDigit(s) THEN [some |-> TRUE, n |-> ParseInt(s)]
             ELSE [some |-> FALSE, n |-> 0]

\* `if port`: neither None nor 0
PortTruthy(p) == p.some /\ p.n # 0

\* port in standard_ports
PortStandard(p) == p.some /\ p.n \in StandardPorts

\* lines 143-168: the port rule, the default rule and the fallback
PortAndDefaultRules(key_lower, dev_val, prod_val, dev_str, prod_str) ==
    LET dev_port == PortOf(dev_str)
        prod_port == PortOf(prod_str)
    IN  IF Contains(key_lower, <<"p", "o", "r", "t">>) /\ PortTruthy(dev_port)
              /\ ~PortStandard(dev_port) /\ PortStandard(prod_port)
        THEN Problematic(PyStr(dev_val), "dev")
        ELSE IF Contains(key_lower, <<"p", "o", "r", "t">>) /\ PortTruthy(prod_port)
              /\ ~PortStandard(prod_port) /\ PortStandard(dev_port)
        THEN Problematic(PyStr(prod_val), "prod")
        ELSE IF ~PyEq(dev_val, prod_val) /\ ContainsAny(dev_str, DevValuePatterns)
        THEN Problematic(PyStr(dev_val), "dev")
        ELSE IF ~PyEq(dev_val, prod_val) /\ ContainsAny(prod_str, ProdValuePatterns)
        THEN Problematic(PyStr(dev_val), "dev")
        ELSE Problematic(PyStr(dev_val), "dev")

\* the key rules with the debug rule tried before the security rule
KeyRulesDebugFirst(key, dev_val, prod_val) ==
    LET dev_str == IF ~IsNone(dev_val) THEN Lower(PyStr(dev_val)) ELSE <<>>
        prod_str == IF ~IsNone(prod_val) THEN Lower(PyStr(prod_val)) ELSE <<>>
        key_lower == Lower(key)
    IN  IF Contains(key_lower, <<"d", "e", "b", "u", "g">>)
        THEN IF prod_str \in TruthyTokens
             THEN Problematic(PyStr(prod_val), "prod")
             ELSE Problematic(PyStr(dev_val), "dev")
        ELSE IF ContainsAny(key_lower, SecurityKeyPatterns)
        THEN IF ContainsAny(dev_str, WeakValuePatterns)
             THEN Problematic(PyStr(dev_val), "dev")
             ELSE Problematic(PyStr(prod_val), "prod")
        ELSE IF ContainsAny(key_lower, HostKeyPatterns)
        THEN IF ContainsAny(dev_str, DevHostPatterns)
             THEN Problematic(PyStr(dev_val), "dev")
             ELSE Problematic(PyStr(prod_val), "prod")
        ELSE IF ContainsAny(key_lower, SslKeyPatterns)
        THEN IF prod_str \in FalsyTokens
             THEN Problematic(PyStr(prod_val), "prod")
             ELSE Problematic(PyStr(dev_val), "dev")
        ELSE PortAndDefaultRules(key_lower, dev_val, prod_val, dev_str, prod_str)

\* lines 114-141: the key rules, in the order of the code
KeyRules(key, dev_val, prod_val) ==
    LET dev_str == IF ~IsNone(dev_val) THEN Lower(PyStr(dev_val)) ELSE <<>>
        prod_str == IF ~IsNone(prod_val) THEN Lower(PyStr(prod_val)) ELSE <<>>
        key_lower == Lower(key)
    IN  IF ContainsAny(key_lower, SecurityKeyPatterns)
        THEN IF ContainsAny(dev_str, WeakValuePatterns)
             THEN Problematic(PyStr(dev_val), "dev")
             ELSE Problematic(PyStr(prod_val), "prod")
        ELSE IF Contains(key_lower, <<"d", "e", "b", "u", "g">>)
        THEN IF prod_str \in TruthyTokens
             THEN Problematic(PyStr(prod_val), "prod")
             ELSE Problematic(PyStr(dev_val), "dev")
        ELSE IF ContainsAny(key_lower, HostKeyPatterns)
        THEN IF ContainsAny(dev_str, DevHostPatterns)
             THEN Problematic(PyStr(dev_val), "dev")
             ELSE Problematic(PyStr(prod_val), "prod")
        ELSE IF ContainsAny(key_lower, SslKeyPatterns)
        THEN IF prod_str \in FalsyTokens
             THEN Problematic(PyStr(prod_val), "prod")
             ELSE Problematic(PyStr(dev_val), "dev")
        ELSE PortAndDefaultRules(key_lower, dev_val, prod_val, dev_str, prod_str)

determine_problematic_environment(key, dev_val, prod_val) ==
    IF IsNone(dev_val) /\ ~IsNone(prod_val)
    THEN Problematic(PyStr(prod_val), "prod")
    ELSE IF IsNone(prod_val) /\ ~IsNone(dev_val)
    THEN Problematic(PyStr(dev_val), "dev")
    ELSE KeyRules(key, dev_val, prod_val)

(***************************************************************************)
(* SpecClassify: determine_problematic_environment applied to one key and  *)
(* two values                                                              *)
(***************************************************************************)
ClassifyKeys ==
    { <<"d", "e", "b", "u", "g">>, <<"D", "E", "B", "U", "G", "_", "M", "O", "D", "E">>, <<"d", "e", "b", "u", "g", "_", "t", "o", "k", "e", "n">>, <<"A", "p", "i", "_", "K", "e", "y">>, <<"d", "e", "b", "u", "g", "_", "h", "o", "s", "t">>,
      <<"d", "b", "_", "h", "o", "s", "t">>, <<"s", "s", "l", "_", "h", "o", "s", "t">>, <<"u", "s", "e", "_", "s", "s", "l">>, <<"h", "t", "t", "p", "s", "_", "p", "o", "r", "t">>, <<"p", "o", "r", "t">>,
      <<"s", "e", "r", "v", "e", "r", "_", "p", "o", "r", "t">>, <<"t", "i", "m", "e", "o", "u", "t">>, <<"s", "e", "c", "u", "r", "e", "_", "d", "e", "b", "u", "g">>, <<"t", "o", "k", "e", "n", "_", "u", "r", "l">>, <<"P", "a", "s", "s", "w", "o", "r", "d">> }

ClassifyValues ==
    { VBool(TRUE), VBool(FALSE), VInt(1), VInt(0), VInt(8080), VInt(9000), VNone, VNaN,
      VStr(<<"t", "r", "u", "e">>), VStr(<<"Y", "e", "s">>), VStr(<<"e", "n", "a", "b", "l", "e", "d">>), VStr(<<"o", "f", "f">>),
      VStr(<<"l", "o", "c", "a", "l", "h", "o", "s", "t">>), VStr(<<"p", "r", "o", "d", ".", "e", "x", "a", "m", "p", "l", "e", ".", "c", "o", "m">>), VStr(<<"t", "e", "s", "t", "1", "2", "3">>),
      VStr(<<"s", "3", "c", "r", "3", "t">>), VStr(<<"9", "0", "0", "0">>), VStr(<<"M", "I", "S", "S", "I", "N", "G">>) }

InitClassify ==
    /\ pc = "call"
    /\ req \in [op : {"determine_problematic_environment"},
               key : ClassifyKeys, dev_val : ClassifyValues, prod_val : ClassifyValues]
    /\ ai = NoAI
    /\ results = <<>>
    /\ resp = NoResp
    /\ calls = <<>>

ClassifyCall ==
    /\ pc = "call"
    /\ req.op = "determine_problematic_environment"
    /\ resp' = Return(determine_problematic_environment(req.key, req.dev_val, req.prod_val))
    /\ pc' = "done"
    /\ calls' = Append(calls, "determine_problematic_environment")
    /\ UNCHANGED <<req, ai, results>>

NextClassify == ClassifyCall

SpecClassify == InitClassify /\ [][NextClassify]_vars

ClassifyDone == pc = "done" /\ req.op = "determine_problematic_environment"

BothPresent == ~IsNone(req.dev_val) /\ ~IsNone(req.prod_val)

\* which of the rules (a)-(d) the key of the request matches
MatchesSecurity == ContainsAny(Lower(req.key), SecurityKeyPatterns)
MatchesDebug == Contains(Lower(req.key), <<"d", "e", "b", "u", "g">>)
MatchesHost == ContainsAny(Lower(req.key), HostKeyPatterns)
MatchesSsl == ContainsAny(Lower(req.key), SslKeyPatterns)

Side(env) == IF env = "dev" THEN Problematic(PyStr(req.dev_val), "dev")
             ELSE Problematic(PyStr(req.prod_val), "prod")

\* C4: with both values present the side is decided by the first matching
\* rule among (a) security, (b) debug, (c) host, (d) ssl; a key matching
\* only debug gives prod exactly when the lowercased prod value is a truthy
\* token.
C4_RuleOrder ==
    (ClassifyDone /\ BothPresent) =>
        LET dev_str == Lower(PyStr(req.dev_val))
            prod_str == Lower(PyStr(req.prod_val))
        IN  /\ MatchesSecurity =>
                  resp.v = Side(IF ContainsAny(dev_str, WeakValuePatterns)
                                THEN "dev" ELSE "prod")
            /\ (MatchesDebug /\ ~MatchesSecurity) =>
                  resp.v = Side(IF prod_str \in TruthyTokens THEN "prod" ELSE "dev")
            /\ (MatchesHost /\ ~MatchesSecurity /\ ~MatchesDebug) =>
                  resp.v = Side(IF ContainsAny(dev_str, DevHostPatterns)
                                THEN "dev" ELSE "prod")
            /\ (MatchesSsl /\ ~MatchesSecurity /\ ~MatchesDebug /\ ~MatchesHost) =>
                  resp.v = Side(IF prod_str \in FalsyTokens THEN "prod" ELSE "dev")
            /\ (MatchesDebug /\ ~MatchesSecurity /\ ~MatchesHost /\ ~MatchesSsl) =>
                  (resp.v.env = "prod" <=> prod_str \in TruthyTokens)

\* a key matching the security and the debug rule was decided by the security
\* rule, against what the debug rule alone would give
C4_Witness ==
    /\ ClassifyDone /\ BothPresent
    /\ MatchesSecurity /\ MatchesDebug
    /\ req.dev_val = VBool(TRUE) /\ req.prod_val = VBool(FALSE)
    /\ resp.v.env = "prod"

\* the key of the request holds 'port' and matches none of the rules (a)-(d)
MatchesPortOnly ==
    /\ Contains(Lower(req.key), <<"p", "o", "r", "t">>)
    /\ ~MatchesSecurity /\ ~MatchesDebug /\ ~MatchesHost /\ ~MatchesSsl

\* a value is purely numeric when the lowercased str() of it is all digits
IsNumericPort(val) == IsDigit(Lower(PyStr(val)))
PortNumber(val) == ParseInt(Lower(PyStr(val)))
IsStandardPort(val) == IsNumericPort(val) /\ PortNumber(val) \in {80, 443, 3000, 5000, 8000, 8080}
IsOddPort(val) == IsNumericPort(val) /\ PortNumber(val) \notin {80, 443, 3000, 5000, 8000, 8080}

\* C11: for a key holding 'port' that matches none of (a)-(d), with both
\* values present: a numeric non-standard dev port against a standard prod
\* port gives dev; a numeric non-standard prod port against a standard dev
\* port gives prod; this for every numeric port, 0 included; every other case
\* falls through to the default rule, which answers dev, and nothing is raised.
C11_PortRule ==
    (ClassifyDone /\ BothPresent /\ MatchesPortOnly) =>
        /\ resp.ok
        /\ IF IsOddPort(req.dev_val) /\ IsStandardPort(req.prod_val)
           THEN resp.v = Side("dev")
           ELSE IF IsOddPort(req.prod_val) /\ IsStandardPort(req.dev_val)
           THEN resp.v = Side("prod")
           ELSE resp.v = Side("dev")

(***************************************************************************)
(* parse_config.  A config text is what json.loads and yaml.safe_load make *)
(* of it; `blank` says that text.strip() is empty.                         *)
(***************************************************************************)
\* a text that json.loads accepts (yaml.safe_load is never asked)
JsonText(x) == [blank |-> FALSE, json |-> Return(x), yaml |-> Return(x)]
\* a text only yaml.safe_load accepts
YamlText(x) == [blank |-> FALSE, json |-> Raise(Exc("JSONDecodeError")), yaml |-> Return(x)]
\* a text neither accepts
MalformedText ==
    [blank |-> FALSE, json |-> Raise(Exc("JSONDecodeError")), yaml |-> Raise(Exc("YAMLError"))]
\* only white space: yaml.safe_load gives None
BlankText == [blank |-> TRUE, json |-> Raise(Exc("JSONDecodeError")), yaml |-> Return(VNone)]

\* a parser that answers an empty mapping when both syntaxes fail
parse_config_lenient(config_str) ==
    IF config_str.json.ok THEN config_str.json
    ELSE IF config_str.yaml.ok THEN config_str.yaml
    ELSE Return(VDict(<<>>))

parse_config(config_str) ==
    IF config_str.json.ok THEN config_str.json
    ELSE IF config_str.yaml.ok THEN config_str.yaml
    ELSE Raise(Exc("ValueError"))

(***************************************************************************)
(* perform_basic_comparison                                                *)
(***************************************************************************)
MISSING == VStr(<<"M", "I", "S", "S", "I", "N", "G">>)

RiskHighKeywords == { <<"p", "a", "s", "s", "w", "o", "r", "d">>, <<"s", "e", "c", "r", "e", "t">>, <<"k", "e", "y">>, <<"t", "o", "k", "e", "n">> }
RiskLowKeywords == { <<"d", "e", "b", "u", "g">>, <<"l", "o", "g">>, <<"t", "e", "s", "t">> }

\* the risk rule with the debug/log/test keywords tried first
BasicRiskLowFirst(key) ==
    IF ContainsAny(Lower(key), RiskLowKeywords) THEN "Low"
    ELSE IF ContainsAny(Lower(key), RiskHighKeywords) THEN "High"
    ELSE "Medium"

\* lines 284-288
BasicRisk(key) ==
    IF ContainsAny(Lower(key), RiskHighKeywords) THEN "High"
    ELSE IF ContainsAny(Lower(key), RiskLowKeywords) THEN "Low"
    ELSE "Medium"

HTTPException(status, detail, cause) ==
    [type |-> "HTTPException", status |-> status, detail |-> detail, cause |-> cause]

ComparisonResult(key, dev_val, prod_val, problematic, risk) ==
    [key |-> key,
     devValue |-> PyStr(dev_val),
     prodValue |-> PyStr(prod_val),
     problematicValue |-> problematic.value,
     problematicEnvironment |-> problematic.env,
     observation |-> <<"C", "o", "n", "f", "i", "g", "u", "r", "a", "t", "i", "o", "n", " ", "m", "i", "s", "m", "a", "t", "c", "h", " ", "i", "n", " ">> \o key,
     suggestion |-> <<"R", "e", "v", "i", "e", "w", " ", "a", "n", "d", " ", "a", "l", "i", "g", "n", " ">> \o key \o <<" ", "v", "a", "l", "u", "e", "s", " ", "b", "e", "t", "w", "e", "e", "n", " ", "e", "n", "v", "i", "r", "o", "n", "m", "e", "n", "t", "s">>,
     risk |-> risk]

\* the body of the loop over all_keys for one key: the record appended, if any
CompareKey(key, dev_flat, prod_flat) ==
    LET dev_val == DictGetDefault(dev_flat, key, MISSING)
        prod_val == DictGetDefault(prod_flat, key, MISSING)
    IN  IF ~PyEq(dev_val, prod_val)
        THEN << ComparisonResult(key, dev_val, prod_val,
                    determine_problematic_environment(key, dev_val, prod_val),
                    BasicRisk(key)) >>
        ELSE <<>>

\* the loop over all_keys, taken in the order `order`
RECURSIVE CompareLoop(_, _, _)
CompareLoop(order, dev_flat, prod_flat) ==
    IF Len(order) = 0 THEN <<>>
    ELSE CompareKey(order[1], dev_flat, prod_flat)
             \o CompareLoop(Tail(order), dev_flat, prod_flat)

\* parse_config then flatten_dict, as lines 269-273 apply them to one text
ParseAndFlatten(config) ==
    LET parsed == parse_config(config)
    IN  IF parsed.ok THEN flatten_dict(parsed.v, <<>>) ELSE parsed

\* all_keys = set(dev_flat.keys()) | set(prod_flat.keys())
AllKeys(dev_config, prod_config) ==
    LET dev_flat == ParseAndFlatten(dev_config)
        prod_flat == ParseAndFlatten(prod_config)
    IN  IF dev_flat.ok /\ prod_flat.ok THEN DictKeys(dev_flat.v) \cup DictKeys(prod_flat.v)
        ELSE {}

\* the orders in which a set can be iterated
RECURSIVE Orders(_)
Orders(S) ==
    IF S = {} THEN { <<>> }
    ELSE UNION { { <<x>> \o rest : rest \in Orders(S \ {x}) } : x \in S }

\* `order` is the iteration order of the set all_keys
perform_basic_comparison(dev_config, prod_config, order) ==
    LET dev_dict == parse_config(dev_config)
        prod_dict == parse_config(prod_config)
    IN  IF ~dev_dict.ok
        THEN Raise(HTTPException(400, "Configuration parsing error", dev_dict.v.type))
        ELSE IF ~prod_dict.ok
        THEN Raise(HTTPException(400, "Configuration parsing error", prod_dict.v.type))
        ELSE LET dev_flat == flatten_dict(dev_dict.v, <<>>)
                 prod_flat == flatten_dict(prod_dict.v, <<>>)
             IN  IF ~dev_flat.ok
                 THEN Raise(HTTPException(400, "Configuration parsing error",
                                          dev_flat.v.type))
                 ELSE IF ~prod_flat.ok
                 THEN Raise(HTTPException(400, "Configuration parsing error",
                                          prod_flat.v.type))
                 ELSE Return(CompareLoop(order, dev_flat.v, prod_flat.v))

(***************************************************************************)
(* SpecCompare: perform_basic_comparison applied to two config texts       *)
(***************************************************************************)
MaxDocEntries == 1

CompareKeys == << <<"d", "e", "b", "u", "g", "_", "t", "o", "k", "e", "n">>, <<"L", "O", "G", "_", "L", "E", "V", "E", "L">>, <<"t", "i", "m", "e", "o", "u", "t">> >>

CompareValues == { VInt(1), VBool(TRUE), VNone, VNaN, MISSING }

\* the flat documents of at most n entries over the keys from index i on
RECURSIVE FlatDocs(_, _)
FlatDocs(i, n) ==
    IF n = 0 \/ i > Len(CompareKeys) THEN { <<>> }
    ELSE FlatDocs(i + 1, n)
         \cup { << <<CompareKeys[i], v>> >> \o rest :
                  v \in CompareValues, rest \in FlatDocs(i + 1, n - 1) }

\* the example of the specification, section 8
ExampleDev ==
    << <<<<"d", "e", "b", "u", "g">>, VBool(TRUE)>>,
       <<<<"d", "b">>, VDict(<< <<<<"h", "o", "s", "t">>, VStr(<<"l", "o", "c", "a", "l", "h", "o", "s", "t">>)>> >>)>> >>
ExampleProd ==
    << <<<<"d", "e", "b", "u", "g">>, VBool(FALSE)>>,
       <<<<"d", "b">>, VDict(<< <<<<"h", "o", "s", "t">>, VStr(<<"p", "r", "o", "d", ".", "e", "x", "a", "m", "p", "l", "e", ".", "c", "o", "m">>)>> >>)>> >>

\* a document of credentials
ExampleSecrets ==
    << <<<<"A", "p", "i", "_", "K", "e", "y">>, VStr(<<"s", "k", "-", "l", "i", "v", "e", "-", "1", "2", "3">>)>>, <<<<"d", "b", "_", "p", "a", "s", "s", "w", "o", "r", "d">>, VStr(<<"h", "u", "n", "t", "e", "r", "2">>)>>,
       <<<<"t", "e", "s", "t", "_", "m", "o", "d", "e">>, VBool(FALSE)>> >>

CompareTexts ==
    { JsonText(VDict(d)) :
        d \in FlatDocs(1, MaxDocEntries) \cup { ExampleDev, ExampleProd, ExampleSecrets } }
    \cup { YamlText(VDict(ExampleProd)), YamlText(VStr(<<"x">>)),
           JsonText(VList(<<VInt(1), VInt(2)>>)), MalformedText }

InitCompare ==
    /\ pc = "call"
    /\ req \in [op : {"perform_basic_comparison"},
               dev_config : CompareTexts, prod_config : CompareTexts]
    /\ ai = NoAI
    /\ results = <<>>
    /\ resp = NoResp
    /\ calls = <<>>

BasicComparisonCall ==
    /\ pc = "call"
    /\ req.op = "perform_basic_comparison"
    /\ \E order \in Orders(AllKeys(req.dev_config, req.prod_config)) :
          resp' = perform_basic_comparison(req.dev_config, req.prod_config, order)
    /\ pc' = "done"
    /\ calls' = Append(calls, "perform_basic_comparison")
    /\ UNCHANGED <<req, ai, results>>

NextCompare == BasicComparisonCall

SpecCompare == InitCompare /\ [][NextCompare]_vars

CompareDone == pc = "done" /\ req.op = "perform_basic_comparison"

\* the two flattened documents of the request, when both texts parse to mappings
ReqDevFlat == ParseAndFlatten(req.dev_config)
ReqProdFlat == ParseAndFlatten(req.prod_config)

\* C1: comparing an accepted text with itself gives no record and the
\* health score {100, 0, 0, 0}.
C1_SelfCompareEmpty ==
    (CompareDone /\ req.dev_config = req.prod_config /\ parse_config(req.dev_config).ok) =>
        /\ resp.ok
        /\ Len(resp.v) = 0
        /\ calculate_health_score(resp.v) = HealthRecord(100, 0, 0, 0)

\* C2: the record of a key present in exactly one flattened document names
\* the side where the key is present, with that side's value.
C2_PresentSideProblematic ==
    (CompareDone /\ resp.ok) =>
        \A i \in 1..Len(resp.v) :
            LET r == resp.v[i]
                inDev == HasKey(ReqDevFlat.v, r.key)
                inProd == HasKey(ReqProdFlat.v, r.key)
            IN  /\ (inDev /\ ~inProd) =>
                      /\ r.problematicEnvironment = "dev"
                      /\ r.problematicValue = PyStr(DictGet(ReqDevFlat.v, r.key))
                /\ (inProd /\ ~inDev) =>
                      /\ r.problematicEnvironment = "prod"
                      /\ r.problematicValue = PyStr(DictGet(ReqProdFlat.v, r.key))

\* C3: the risk of every record is High when the lowercased key contains
\* password, secret, key or token; otherwise Low when it contains debug, log
\* or test; otherwise Medium.
C3_RiskByKey ==
    (CompareDone /\ resp.ok) =>
        \A i \in 1..Len(resp.v) :
            LET r == resp.v[i]
                k == Lower(r.key)
                security == \E w \in { <<"p", "a", "s", "s", "w", "o", "r", "d">>, <<"s", "e", "c", "r", "e", "t">>, <<"k", "e", "y">>, <<"t", "o", "k", "e", "n">> } : Contains(k, w)
                lowrisk == \E w \in { <<"d", "e", "b", "u", "g">>, <<"l", "o", "g">>, <<"t", "e", "s", "t">> } : Contains(k, w)
            IN  r.risk = IF security THEN "High" ELSE IF lowrisk THEN "Low" ELSE "Medium"

\* a record for the key debug_token, which holds a keyword of both sets, is High
C3_Witness ==
    /\ CompareDone /\ resp.ok
    /\ \E i \in 1..Len(resp.v) :
          /\ resp.v[i].key = <<"d", "e", "b", "u", "g", "_", "t", "o", "k", "e", "n">>
          /\ resp.v[i].risk = "High"
    /\ \E i \in 1..Len(resp.v) : resp.v[i].risk = "Low"

\* the keys present in exactly one of the two flattened documents
OneSidedKeys ==
    { k \in DictKeys(ReqDevFlat.v) \cup DictKeys(ReqProdFlat.v) :
         HasKey(ReqDevFlat.v, k) # HasKey(ReqProdFlat.v, k) }

\* C12: every key present in exactly one flattened document has a record,
\* whatever its value (the string "MISSING" included), and the
\* problematicValue of every record is its devValue when the environment is
\* dev and its prodValue when it is prod.
C12_OneSidedKeysReported ==
    (CompareDone /\ resp.ok) =>
        /\ \A k \in OneSidedKeys : \E i \in 1..Len(resp.v) : resp.v[i].key = k
        /\ \A i \in 1..Len(resp.v) :
              /\ resp.v[i].problematicEnvironment \in {"dev", "prod"}
              /\ resp.v[i].problematicValue =
                    IF resp.v[i].problematicEnvironment = "dev"
                    THEN resp.v[i].devValue ELSE resp.v[i].prodValue

(***************************************************************************)
(* perform_basic_file_analysis                                             *)
(***************************************************************************)
SensitiveKeyPatterns == { <<"p", "a", "s", "s", "w", "o", "r", "d">>, <<"s", "e", "c", "r", "e", "t">>, <<"k", "e", "y">>, <<"t", "o", "k", "e", "n">>, <<"a", "p", "i", "_", "k", "e", "y">> }
MaskedValues == { <<>>, <<"n", "u", "l", "l">>, <<"n", "o", "n", "e">>, <<"*", "*", "*">> }
DebugOnValues == { <<"t", "r", "u", "e">>, <<"1">>, <<"o", "n">> }
VerifyOffValues == { <<"f", "a", "l", "s", "e">>, <<"0">>, <<"o", "f", "f">> }
InsecureProtocols == { <<"h", "t", "t", "p", ":", "/", "/">>, <<"f", "t", "p", ":", "/", "/">>, <<"t", "e", "l", "n", "e", "t", ":", "/", "/">> }

FileIssue(key, value, observation, suggestion, risk) ==
    [key |-> key, value |-> PyStr(value), observation |-> observation,
     suggestion |-> suggestion, risk |-> risk]

\* the four checks of the loop body, each the list of issues it appends
SensitiveIssue(key, value) ==
    IF ContainsAny(Lower(key), SensitiveKeyPatterns)
          /\ Lower(PyStr(value)) \notin MaskedValues
    THEN << FileIssue(key, value, <<"S", "e", "n", "s", "i", "t", "i", "v", "e", " ", "d", "a", "t", "a", " ", "e", "x", "p", "o", "s", "e", "d", " ", "i", "n", " ", "c", "o", "n", "f", "i", "g", "u", "r", "a", "t", "i", "o", "n", ":", " ">> \o key,
                      <<"U", "s", "e", " ", "e", "n", "v", "i", "r", "o", "n", "m", "e", "n", "t", " ", "v", "a", "r", "i", "a", "b", "l", "e", "s", " ", "o", "r", " ", "s", "e", "c", "u", "r", "e", " ", "s", "e", "c", "r", "e", "t", " ", "m", "a", "n", "a", "g", "e", "m", "e", "n", "t">>, "High") >>
    ELSE <<>>

DebugIssue(key, value, environment) ==
    IF Lower(environment) = <<"p", "r", "o", "d">> /\ Contains(Lower(key), <<"d", "e", "b", "u", "g">>)
          /\ Lower(PyStr(value)) \in DebugOnValues
    THEN << FileIssue(key, value, <<"D", "e", "b", "u", "g", " ", "m", "o", "d", "e", " ", "e", "n", "a", "b", "l", "e", "d", " ", "i", "n", " ", "p", "r", "o", "d", "u", "c", "t", "i", "o", "n", ":", " ">> \o key,
                      <<"D", "i", "s", "a", "b", "l", "e", " ", "d", "e", "b", "u", "g", " ", "m", "o", "d", "e", " ", "i", "n", " ", "p", "r", "o", "d", "u", "c", "t", "i", "o", "n", " ", "e", "n", "v", "i", "r", "o", "n", "m", "e", "n", "t">>, "Medium") >>
    ELSE <<>>

SslIssue(key, value) ==
    IF (Contains(Lower(key), <<"s", "s", "l">>) \/ Contains(Lower(key), <<"t", "l", "s">>))
          /\ Contains(Lower(key), <<"v", "e", "r", "i", "f", "y">>)
          /\ Lower(PyStr(value)) \in VerifyOffValues
    THEN << FileIssue(key, value, <<"S", "S", "L", "/", "T", "L", "S", " ", "v", "e", "r", "i", "f", "i", "c", "a", "t", "i", "o", "n", " ", "d", "i", "s", "a", "b", "l", "e", "d", ":", " ">> \o key,
                      <<"E", "n", "a", "b", "l", "e", " ", "S", "S", "L", "/", "T", "L", "S", " ", "v", "e", "r", "i", "f", "i", "c", "a", "t", "i", "o", "n", " ", "f", "o", "r", " ", "s", "e", "c", "u", "r", "i", "t", "y">>, "High") >>
    ELSE <<>>

ProtocolIssue(key, value) ==
    IF value.t = "str" /\ ContainsAny(Lower(value.v), InsecureProtocols)
    THEN << FileIssue(key, value, <<"I", "n", "s", "e", "c", "u", "r", "e", " ", "p", "r", "o", "t", "o", "c", "o", "l", " ", "d", "e", "t", "e", "c", "t", "e", "d", " ", "i", "n", " ">> \o key,
                      <<"U", "s", "e", " ", "s", "e", "c", "u", "r", "e", " ", "p", "r", "o", "t", "o", "c", "o", "l", "s", " ", "(", "H", "T", "T", "P", "S", ",", " ", "S", "F", "T", "P", ",", " ", "S", "S", "H", ")">>, "Medium") >>
    ELSE <<>>

\* a loop body that stops at the first check that matches
AnalyzeEntryFirstMatchOnly(key, value, environment) ==
    IF Len(SensitiveIssue(key, value)) > 0 THEN SensitiveIssue(key, value)
    ELSE IF Len(DebugIssue(key, value, environment)) > 0
    THEN DebugIssue(key, value, environment)
    ELSE IF Len(SslIssue(key, value)) > 0 THEN SslIssue(key, value)
    ELSE ProtocolIssue(key, value)

\* lines 377-420: the loop body for one flattened entry
AnalyzeEntry(key, value, environment) ==
    SensitiveIssue(key, value) \o DebugIssue(key, value, environment)
        \o SslIssue(key, value) \o ProtocolIssue(key, value)

\* the loop over config_flat.items()
RECURSIVE AnalyzeLoop(_, _)
AnalyzeLoop(config_flat, environment) ==
    IF Len(config_flat) = 0 THEN <<>>
    ELSE AnalyzeEntry(config_flat[1][1], config_flat[1][2], environment)
             \o AnalyzeLoop(Tail(config_flat), environment)

perform_basic_file_analysis(config, environment) ==
    LET config_dict == parse_config(config)
    IN  IF ~config_dict.ok
        THEN Raise(HTTPException(400, "File analysis error", config_dict.v.type))
        ELSE LET config_flat == flatten_dict(config_dict.v, <<>>)
             IN  IF ~config_flat.ok
                 THEN Raise(HTTPException(400, "File analysis error", config_flat.v.type))
                 ELSE Return(AnalyzeLoop(config_flat.v, environment))

(***************************************************************************)
(* SpecAnalyze: perform_basic_file_analysis applied to one config text     *)
(***************************************************************************)
MaxFileEntries == 2

AnalyzeKeys == { <<"d", "e", "b", "u", "g">>, <<"D", "E", "B", "U", "G", "_", "T", "L", "S", "_", "V", "E", "R", "I", "F", "Y", "_", "K", "E", "Y">>, <<"s", "s", "l", "_", "v", "e", "r", "i", "f", "y">>, <<"e", "n", "d", "p", "o", "i", "n", "t">> }

AnalyzeValues ==
    { VBool(TRUE), VInt(0), VNone, VStr(<<"O", "F", "F">>), VStr(<<"H", "T", "T", "P", ":", "/", "/", "a">>) }

\* the flat documents of exactly n entries, in every insertion order
RECURSIVE FileDocs(_)
FileDocs(n) ==
    IF n = 0 THEN { <<>> }
    ELSE UNION { { Append(d, <<k, v>>) : k \in AnalyzeKeys \ DictKeys(d), v \in AnalyzeValues }
                 : d \in FileDocs(n - 1) }

\* the example of the specification, section 8, and a nested document
ExampleApiKey == << <<<<"a", "p", "i", "_", "k", "e", "y">>, VStr(<<"s", "k", "-", "l", "i", "v", "e", "-", "1", "2", "3">>)>> >>
ExampleMasked == << <<<<"P", "a", "s", "s", "w", "o", "r", "d">>, VStr(<<"*", "*", "*">>)>>, <<<<"s", "e", "c", "r", "e", "t">>, VStr(<<>>)>> >>
ExampleNested ==
    << <<<<"d", "b">>, VDict(<< <<<<"p", "a", "s", "s", "w", "o", "r", "d">>, VStr(<<"f", "t", "p", ":", "/", "/", "h">>)>>,
                          <<<<"t", "l", "s", "_", "v", "e", "r", "i", "f", "y">>, VBool(FALSE)>> >>)>>,
       <<<<"d", "e", "b", "u", "g">>, VStr(<<"o", "n">>)>> >>

AnalyzeTexts ==
    { JsonText(VDict(d)) :
        d \in UNION { FileDocs(n) : n \in 0..MaxFileEntries }
              \cup { ExampleApiKey, ExampleMasked, ExampleNested } }
    \cup { YamlText(VDict(ExampleNested)), JsonText(VInt(1)), MalformedText }

Environments == { <<"d", "e", "v">>, <<"p", "r", "o", "d">>, <<"P", "R", "O", "D">> }

InitAnalyze ==
    /\ pc = "call"
    /\ req \in [op : {"perform_basic_file_analysis"},
               config : AnalyzeTexts, environment : Environments]
    /\ ai = NoAI
    /\ results = <<>>
    /\ resp = NoResp
    /\ calls = <<>>

BasicFileAnalysisCall ==
    /\ pc = "call"
    /\ req.op = "perform_basic_file_analysis"
    /\ resp' = perform_basic_file_analysis(req.config, req.environment)
    /\ pc' = "done"
    /\ calls' = Append(calls, "perform_basic_file_analysis")
    /\ UNCHANGED <<req, ai, results>>

NextAnalyze == BasicFileAnalysisCall

SpecAnalyze == InitAnalyze /\ [][NextAnalyze]_vars

AnalyzeDone == pc = "done" /\ req.op = "perform_basic_file_analysis"

\* whether rule r (1 sensitive key, 2 debug in prod, 3 verification disabled,
\* 4 insecure protocol) holds of the entry (key, value)
RuleHolds(r, key, value, environment) ==
    LET k == Lower(key)
        s == Lower(PyStr(value))
    IN  CASE r = 1 -> /\ \E w \in { <<"p", "a", "s", "s", "w", "o", "r", "d">>, <<"s", "e", "c", "r", "e", "t">>, <<"k", "e", "y">>, <<"t", "o", "k", "e", "n">>, <<"a", "p", "i", "_", "k", "e", "y">> } : Contains(k, w)
                      /\ s \notin { <<>>, <<"n", "u", "l", "l">>, <<"n", "o", "n", "e">>, <<"*", "*", "*">> }
          [] r = 2 -> /\ Lower(environment) = <<"p", "r", "o", "d">>
                      /\ Contains(k, <<"d", "e", "b", "u", "g">>)
                      /\ s \in { <<"t", "r", "u", "e">>, <<"1">>, <<"o", "n">> }
          [] r = 3 -> /\ Contains(k, <<"s", "s", "l">>) \/ Contains(k, <<"t", "l", "s">>)
                      /\ Contains(k, <<"v", "e", "r", "i", "f", "y">>)
                      /\ s \in { <<"f", "a", "l", "s", "e">>, <<"0">>, <<"o", "f", "f">> }
          [] r = 4 -> /\ value.t = "str"
                      /\ \E w \in { <<"h", "t", "t", "p", ":", "/", "/">>, <<"f", "t", "p", ":", "/", "/">>, <<"t", "e", "l", "n", "e", "t", ":", "/", "/">> } : Contains(s, w)

RuleObservation(r) ==
    CASE r = 1 -> <<"S", "e", "n", "s", "i", "t", "i", "v", "e", " ", "d", "a", "t", "a", " ", "e", "x", "p", "o", "s", "e", "d", " ", "i", "n", " ", "c", "o", "n", "f", "i", "g", "u", "r", "a", "t", "i", "o", "n", ":", " ">>
      [] r = 2 -> <<"D", "e", "b", "u", "g", " ", "m", "o", "d", "e", " ", "e", "n", "a", "b", "l", "e", "d", " ", "i", "n", " ", "p", "r", "o", "d", "u", "c", "t", "i", "o", "n", ":", " ">>
      [] r = 3 -> <<"S", "S", "L", "/", "T", "L", "S", " ", "v", "e", "r", "i", "f", "i", "c", "a", "t", "i", "o", "n", " ", "d", "i", "s", "a", "b", "l", "e", "d", ":", " ">>
      [] r = 4 -> <<"I", "n", "s", "e", "c", "u", "r", "e", " ", "p", "r", "o", "t", "o", "c", "o", "l", " ", "d", "e", "t", "e", "c", "t", "e", "d", " ", "i", "n", " ">>

RuleRisk(r) == IF r \in {1, 3} THEN "High" ELSE "Medium"

\* C6: the list holds exactly one issue for each (entry, rule) pair whose
\* condition holds, in flattened-map order and in rule order within an entry.
C6_AllRulesAllEntries ==
    (AnalyzeDone /\ resp.ok) =>
        LET flat == ParseAndFlatten(req.config).v
            hits == { p \in (1..Len(flat)) \X (1..4) :
                        RuleHolds(p[2], flat[p[1]][1], flat[p[1]][2], req.environment) }
            before(p) == { q \in hits : q[1] < p[1] \/ (q[1] = p[1] /\ q[2] < p[2]) }
        IN  /\ Len(resp.v) = Cardinality(hits)
            /\ \A p \in hits :
                  LET issue == resp.v[Cardinality(before(p)) + 1]
                  IN  /\ issue.key = flat[p[1]][1]
                      /\ issue.value = PyStr(flat[p[1]][2])
                      /\ issue.observation = RuleObservation(p[2]) \o flat[p[1]][1]
                      /\ issue.risk = RuleRisk(p[2])

\* the first entry of a document gave two issues and the second entry one
C6_Witness ==
    /\ AnalyzeDone /\ resp.ok
    /\ Len(resp.v) = 3
    /\ Len(ParseAndFlatten(req.config).v) = 2
    /\ resp.v[1].key = resp.v[2].key
    /\ resp.v[1].observation # resp.v[2].observation
    /\ resp.v[3].key # resp.v[1].key

(***************************************************************************)
(* The AI path.  A reply of the model is what generate_content and         *)
(* json.loads make of it: the call raises, the text is no JSON, the JSON   *)
(* is no array, or it is an array of objects.  An object is the set `has`  *)
(* of the fields it holds and their values `f`.                            *)
(***************************************************************************)
ResultFields ==
    { "key", "devValue", "prodValue", "problematicValue", "problematicEnvironment",
      "observation", "suggestion", "risk" }
IssueFields == { "key", "value", "observation", "suggestion", "risk" }

AIReply(kind, items) == [kind |-> kind, items |-> items]

\* lines 246-257: one object of the array made a ComparisonResult
ConvertResultItem(item) ==
    LET backfill == "problematicValue" \notin item.has
                       \/ "problematicEnvironment" \notin item.has
    IN  IF backfill /\ ~({"key", "devValue", "prodValue"} \subseteq item.has)
        THEN Raise(Exc("KeyError"))
        ELSE LET problematic ==
                     determine_problematic_environment(item.f.key, VStr(item.f.devValue),
                                                       VStr(item.f.prodValue))
                 has == IF backfill
                        THEN item.has \cup {"problematicValue", "problematicEnvironment"}
                        ELSE item.has
                 f == IF backfill
                      THEN [item.f EXCEPT !.problematicValue = problematic.value,
                                          !.problematicEnvironment = problematic.env]
                      ELSE item.f
             IN  IF ResultFields \subseteq has THEN Return(f)
                 ELSE Raise(Exc("ValidationError"))

\* lines 358-359: one object of the array made a FileIssue
ConvertIssueItem(item) ==
    IF IssueFields \subseteq item.has THEN Return(item.f)
    ELSE Raise(Exc("ValidationError"))

\* lines 224-259: the try block of analyze_with_ai
analyze_with_ai_try(reply) ==
    CASE reply.kind = "raises" -> Raise(Exc("GenerateContentError"))
      [] reply.kind = "not_json" -> Raise(Exc("JSONDecodeError"))
      [] reply.kind = "not_array" -> Raise(Exc("TypeError"))
      [] OTHER ->
           LET converted == [i \in 1..Len(reply.items) |-> ConvertResultItem(reply.items[i])]
           IN  IF \E i \in 1..Len(converted) : ~converted[i].ok
               THEN converted[CHOOSE i \in 1..Len(converted) :
                                  ~converted[i].ok
                                  /\ \A j \in 1..(i - 1) : converted[j].ok]
               ELSE Return([i \in 1..Len(converted) |-> converted[i].v])

\* lines 336-361: the try block of analyze_individual_file
analyze_individual_file_try(reply) ==
    CASE reply.kind = "raises" -> Raise(Exc("GenerateContentError"))
      [] reply.kind = "not_json" -> Raise(Exc("JSONDecodeError"))
      [] reply.kind = "not_array" -> Raise(Exc("TypeError"))
      [] OTHER ->
           LET converted == [i \in 1..Len(reply.items) |-> ConvertIssueItem(reply.items[i])]
           IN  IF \E i \in 1..Len(converted) : ~converted[i].ok
               THEN converted[CHOOSE i \in 1..Len(converted) :
                                  ~converted[i].ok
                                  /\ \A j \in 1..(i - 1) : converted[j].ok]
               ELSE Return([i \in 1..Len(converted) |-> converted[i].v])

\* an except clause that lets the failure of the AI path leave the function
AIExceptHandlerPropagates == "propagate"

\* lines 261-264: `except Exception` of analyze_with_ai calls the basic comparison
AIExceptHandler == "fallback"

\* lines 363-366: `except Exception` of analyze_individual_file
FileAIExceptHandler == "fallback"

(***************************************************************************)
(* The endpoints                                                           *)
(***************************************************************************)
ComparisonResponse(success, data, error, healthScore) ==
    [success |-> success, data |-> data, error |-> error, healthScore |-> healthScore]

FileAnalysisResponse(success, environment, issues, error, healthScore) ==
    [success |-> success, environment |-> environment, issues |-> issues,
     error |-> error, healthScore |-> healthScore]

\* healthScore: Dict[str, Any] = {}
EmptyHealth == HealthRecord(0, 0, 0, 0)

(***************************************************************************)
(* Spec: one request to POST /compare or POST /analyze, step by step       *)
(***************************************************************************)
MaxAIItems == 2

ServiceTexts ==
    { JsonText(VDict(ExampleDev)), JsonText(VDict(ExampleProd)),
      YamlText(VDict(ExampleProd)), JsonText(VList(<<VInt(1), VInt(2)>>)),
      MalformedText, BlankText }

ResultItem(has, key, devValue, prodValue, risk) ==
    [has |-> has,
     f |-> [key |-> key, devValue |-> devValue, prodValue |-> prodValue,
            problematicValue |-> prodValue, problematicEnvironment |-> "prod",
            observation |-> <<"d", "i", "f", "f", "e", "r", "s">>, suggestion |-> <<"a", "l", "i", "g", "n">>, risk |-> risk]]

AIResultItems ==
    { ResultItem(ResultFields, <<"d", "b", ".", "h", "o", "s", "t">>, <<"l", "o", "c", "a", "l", "h", "o", "s", "t">>, <<"p", "r", "o", "d", ".", "e", "x", "a", "m", "p", "l", "e", ".", "c", "o", "m">>, "High"),
      ResultItem(ResultFields \ {"problematicValue", "problematicEnvironment"},
                 <<"d", "e", "b", "u", "g">>, <<"T", "r", "u", "e">>, <<"F", "a", "l", "s", "e">>, "Low"),
      ResultItem(ResultFields \ {"risk"}, <<"d", "e", "b", "u", "g">>, <<"T", "r", "u", "e">>, <<"F", "a", "l", "s", "e">>, "Low"),
      ResultItem({"observation", "suggestion", "risk"}, <<>>, <<>>, <<>>, "Medium") }

IssueItem(has, key, value, risk) ==
    [has |-> has,
     f |-> [key |-> key, value |-> value, observation |-> <<"e", "x", "p", "o", "s", "e", "d">>,
            suggestion |-> <<"r", "o", "t", "a", "t", "e">>, risk |-> risk]]

AIIssueItems ==
    { IssueItem(IssueFields, <<"a", "p", "i", "_", "k", "e", "y">>, <<"s", "k", "-", "l", "i", "v", "e", "-", "1", "2", "3">>, "High"),
      IssueItem(IssueFields, <<"d", "e", "b", "u", "g">>, <<"T", "r", "u", "e">>, "Critical"),
      IssueItem(IssueFields \ {"value"}, <<"a", "p", "i", "_", "k", "e", "y">>, <<>>, "High") }

SeqsUpTo(S, n) == UNION { [1..m -> S] : m \in 0..n }

AIReplies(items) ==
    { AIReply("raises", <<>>), AIReply("not_json", <<>>), AIReply("not_array", <<>>) }
    \cup { AIReply("array", xs) : xs \in SeqsUpTo(items, MaxAIItems) }

NoResults == <<>>

Init ==
    /\ pc = "received"
    /\ \/ req \in [op : {"compare_configs"}, devConfig : ServiceTexts,
                  prodConfig : ServiceTexts, api_key : BOOLEAN]
       \/ req \in [op : {"analyze_individual_config"}, config : ServiceTexts,
                  environment : Environments \cup { <<"s", "t", "a", "g", "i", "n", "g">> }, api_key : BOOLEAN]
    /\ ai = NoAI
    /\ results = NoResults
    /\ resp = NoResp
    /\ calls = <<>>

\* lines 501-512: the validation of POST /compare and the choice of the path
ValidateCompare ==
    /\ pc = "received"
    /\ req.op = "compare_configs"
    /\ IF req.devConfig.blank \/ req.prodConfig.blank
       THEN /\ resp' = Raise(HTTPException(400,
                          "Both development and production configurations are required",
                          "validation"))
            /\ pc' = "done"
       ELSE /\ pc' = IF req.api_key THEN "ai" ELSE "basic"
            /\ UNCHANGED resp
    /\ UNCHANGED <<req, ai, results, calls>>

\* analyze_with_ai: the model is called; a failure goes to the except clause
AnalyzeWithAI ==
    /\ pc = "ai"
    /\ req.op = "compare_configs"
    /\ \E reply \in AIReplies(AIResultItems) :
          LET tried == analyze_with_ai_try(reply)
          IN  /\ ai' = reply
              /\ IF tried.ok
                 THEN results' = tried.v /\ pc' = "score" /\ UNCHANGED resp
                 ELSE IF AIExceptHandler = "fallback"
                 THEN pc' = "basic" /\ UNCHANGED <<results, resp>>
                 ELSE /\ resp' = Return(ComparisonResponse(FALSE, <<>>, "Analysis failed",
                                                           EmptyHealth))
                      /\ pc' = "done"
                      /\ UNCHANGED results
    /\ calls' = Append(calls, "generate_content")
    /\ UNCHANGED req

\* perform_basic_comparison, called by the endpoint or by the except clause
ServeBasicComparison ==
    /\ pc = "basic"
    /\ req.op = "compare_configs"
    /\ \E order \in Orders(AllKeys(req.devConfig, req.prodConfig)) :
          LET r == perform_basic_comparison(req.devConfig, req.prodConfig, order)
          IN  IF r.ok
              THEN results' = r.v /\ pc' = "score" /\ UNCHANGED resp
              ELSE resp' = r /\ pc' = "done" /\ UNCHANGED results
    /\ calls' = Append(calls, "perform_basic_comparison")
    /\ UNCHANGED <<req, ai>>

\* lines 514-521
RespondCompare ==
    /\ pc = "score"
    /\ req.op = "compare_configs"
    /\ resp' = Return(ComparisonResponse(TRUE, results, "", calculate_health_score(results)))
    /\ pc' = "done"
    /\ calls' = Append(calls, "calculate_health_score")
    /\ UNCHANGED <<req, ai, results>>

\* lines 459-476: the validation of POST /analyze and the choice of the path
ValidateAnalyze ==
    /\ pc = "received"
    /\ req.op = "analyze_individual_config"
    /\ IF req.config.blank
       THEN /\ resp' = Raise(HTTPException(400, "Configuration content is required",
                                           "validation"))
            /\ pc' = "done"
       ELSE IF Lower(req.environment) \notin { <<"d", "e", "v">>, <<"p", "r", "o", "d">> }
       THEN /\ resp' = Raise(HTTPException(400, "Environment must be 'dev' or 'prod'",
                                           "validation"))
            /\ pc' = "done"
       ELSE /\ pc' = IF req.api_key THEN "ai" ELSE "basic"
            /\ UNCHANGED resp
    /\ UNCHANGED <<req, ai, results, calls>>

\* analyze_individual_file
AnalyzeIndividualFile ==
    /\ pc = "ai"
    /\ req.op = "analyze_individual_config"
    /\ \E reply \in AIReplies(AIIssueItems) :
          LET tried == analyze_individual_file_try(reply)
          IN  /\ ai' = reply
              /\ IF tried.ok
                 THEN results' = tried.v /\ pc' = "score" /\ UNCHANGED resp
                 ELSE IF FileAIExceptHandler = "fallback"
                 THEN pc' = "basic" /\ UNCHANGED <<results, resp>>
                 ELSE /\ resp' = Return(FileAnalysisResponse(FALSE, req.environment, <<>>,
                                                             "Analysis failed", EmptyHealth))
                      /\ pc' = "done"
                      /\ UNCHANGED results
    /\ calls' = Append(calls, "generate_content")
    /\ UNCHANGED req

\* perform_basic_file_analysis, called by the endpoint or by the except clause
ServeBasicFileAnalysis ==
    /\ pc = "basic"
    /\ req.op = "analyze_individual_config"
    /\ LET r == perform_basic_file_analysis(req.config, req.environment)
       IN  IF r.ok
           THEN results' = r.v /\ pc' = "score" /\ UNCHANGED resp
           ELSE resp' = r /\ pc' = "done" /\ UNCHANGED results
    /\ calls' = Append(calls, "perform_basic_file_analysis")
    /\ UNCHANGED <<req, ai>>

\* lines 478-486
RespondAnalyze ==
    /\ pc = "score"
    /\ req.op = "analyze_individual_config"
    /\ resp' = Return(FileAnalysisResponse(TRUE, req.environment, results, "",
                                           calculate_file_health_score(results)))
    /\ pc' = "done"
    /\ calls' = Append(calls, "calculate_file_health_score")
    /\ UNCHANGED <<req, ai, results>>

Next ==
    \/ ValidateCompare
    \/ AnalyzeWithAI
    \/ ServeBasicComparison
    \/ RespondCompare
    \/ ValidateAnalyze
    \/ AnalyzeIndividualFile
    \/ ServeBasicFileAnalysis
    \/ RespondAnalyze

Spec == Init /\ [][Next]_vars

(***************************************************************************)
(* Properties of the endpoints                                             *)
(***************************************************************************)
Done == pc = "done"
Called(name) == \E i \in 1..Len(calls) : calls[i] = name
ReqTexts ==
    IF req.op = "compare_configs" THEN {req.devConfig, req.prodConfig} ELSE {req.config}
Unparseable(text) == ~text.json.ok /\ ~text.yaml.ok
SomeTextUnparseable == \E text \in ReqTexts : Unparseable(text)

\* the fields an object of the reply needs to become a record
NeededFields ==
    IF req.op = "compare_configs"
    THEN ResultFields \ {"problematicValue", "problematicEnvironment"}
    ELSE IssueFields
AISucceeded ==
    /\ ai.kind = "array"
    /\ \A i \in 1..Len(ai.items) : NeededFields \subseteq ai.items[i].has
AIFailed ==
    \/ ai.kind \in {"raises", "not_json", "not_array"}
    \/ /\ ai.kind = "array"
       /\ \E i \in 1..Len(ai.items) : ~(NeededFields \subseteq ai.items[i].has)

IsClientError == ~resp.ok /\ resp.v.status = 400

\* C7 as stated: a request with a text that parses under neither syntax ends
\* in a client-input error, the model is never called on the text and no
\* records are returned, whether GEMINI_API_KEY is set or not.
C7_ParseErrorEveryPath ==
    (Done /\ SomeTextUnparseable)
        => /\ IsClientError
           /\ ~Called("generate_content")
           /\ results = NoResults

\* C7 amended: a request with a text that parses under neither syntax ends
\* in a client-input error with no records whenever the AI path did not
\* succeed (GEMINI_API_KEY unset, or the AI path failed and fell back to the
\* deterministic core); without the key the model is never called, and a
\* request that passed validation gets the parse error of the core.
C7_ParseErrorWhenCoreRuns ==
    (Done /\ SomeTextUnparseable /\ ~AISucceeded)
        => /\ IsClientError
           /\ results = NoResults
           /\ (~req.api_key => ~Called("generate_content"))
           /\ (resp.v.cause # "validation"
                  => /\ resp.v.cause = "ValueError"
                     /\ resp.v.detail \in {"Configuration parsing error",
                                          "File analysis error"})

\* the AI path was taken and failed, the malformed production text reached
\* the deterministic core and the caller got its parse error
C7_Witness ==
    /\ Done /\ SomeTextUnparseable /\ IsClientError
    /\ resp.v.cause = "ValueError"
    /\ req.api_key /\ AIFailed /\ Called("generate_content")
    /\ req.op = "compare_configs"
    /\ Unparseable(req.prodConfig) /\ ~Unparseable(req.devConfig)

\* what the deterministic core answers to the request
CoreAnswers ==
    IF req.op = "compare_configs"
    THEN \E order \in Orders(AllKeys(req.devConfig, req.prodConfig)) :
            LET r == perform_basic_comparison(req.devConfig, req.prodConfig, order)
            IN  IF r.ok
                THEN resp = Return(ComparisonResponse(TRUE, r.v, "",
                                                      calculate_health_score(r.v)))
                ELSE resp = r
    ELSE LET r == perform_basic_file_analysis(req.config, req.environment)
         IN  IF r.ok
             THEN resp = Return(FileAnalysisResponse(TRUE, req.environment, r.v, "",
                                                     calculate_file_health_score(r.v)))
             ELSE resp = r

\* C8: when the AI path fails (the model call raises, the text is no JSON, an
\* object does not fit the record shape) the very next step is the
\* deterministic core on the unchanged request, and the request ends with
\* what the core answers to these inputs, never with the failure of the AI.
C8_FallbackOnAIFailure ==
    /\ [][(pc = "ai" /\ AIFailed')
             => (pc' = "basic" /\ req' = req /\ resp' = NoResp /\ results' = NoResults)]_vars
    /\ []((Done /\ AIFailed)
             => /\ Called(IF req.op = "compare_configs" THEN "perform_basic_comparison"
                          ELSE "perform_basic_file_analysis")
                /\ CoreAnswers)

\* an object of the reply lacked a field, and the caller got the records of
\* the deterministic comparison
C8_Witness ==
    /\ Done /\ AIFailed
    /\ ai.kind = "array"
    /\ req.op = "compare_configs"
    /\ resp.ok /\ resp.v.success
    /\ Len(resp.v.data) = 2

=============================================================================
